---- MODULE Spec2Model ----
(***************************************************************************)
(* State-machine model of SolrImplementation                               *)
(* (backend/src/monarch_py/implementations/solr/solr_implementation.py):   *)
(* the entity, association and search operations, with the Solr gateway,   *)
(* the query builders and the response parsers as collaborators.           *)
(*                                                                         *)
(* Python values are tagged records: None is [t |-> "None"], a str is      *)
(* [t |-> "str", s |-> ...], a list is [t |-> "list", l |-> <<...>>].      *)
(* Identifiers, labels and predicates that are never None are bare strings.*)
(***************************************************************************)
EXTENDS Integers, Sequences, FiniteSets, TLC

VARIABLES pc, req, node, hier, moi, calls, response, result, other

vars == <<pc, req, node, hier, moi, calls, response, result, other>>

----------------------------------------------------------------------------
(* Bounds of the model *)

MaxItems == 2      \* largest page of documents the gateway answers with
MaxFilters == 1    \* most filter parameters a caller sets at once
MaxTotal == 5      \* a total reported by the gateway beyond the page size

----------------------------------------------------------------------------
(* Python values *)

None == [t |-> "None"]
Str(s) == [t |-> "str", s |-> s]
List(l) == [t |-> "list", l |-> l]
Bool(b) == [t |-> "bool", b |-> b]
Error(kind) == [t |-> "Error", kind |-> kind]

IsError(v) == v.t = "Error"

\* {**g, **f}: the fields of f, and those of g that f does not set
Over(f, g) == [k \in DOMAIN f \cup DOMAIN g |-> IF k \in DOMAIN f THEN f[k] ELSE g[k]]
Range(seq) == {seq[i] : i \in 1..Len(seq)}

\* the members of a filter value: a list's elements, a bare string itself
Members(v) == IF v.t = "list" THEN Range(v.l) ELSE IF v.t = "str" THEN {v.s} ELSE {}

\* bool(v) of an Optional[bool] flag
Truthy(v) == v.t = "bool" /\ v.b

\* the injective sequences over S of length at most n
RECURSIVE SeqsUpTo(_, _)
SeqsUpTo(S, n) ==
    IF n = 0 THEN {<<>>}
    ELSE LET shorter == SeqsUpTo(S, n - 1)
         IN shorter \cup {Append(q, x) : q \in {r \in shorter : Len(r) = n - 1},
                                        x \in S}

Pages(S) == {q \in SeqsUpTo(S, MaxItems) : \A i, j \in 1..Len(q) : i # j => q[i] # q[j]}

----------------------------------------------------------------------------
(* Contents of the backend: the entity core and the association core *)

Disease == "biolink:Disease"
Phenotype == "biolink:PhenotypicFeature"

SUBCLASS_OF == "biolink:subclass_of"
SAME_AS == "biolink:same_as"
HAS_MODE_OF_INHERITANCE == "biolink:has_mode_of_inheritance"

\* str.replace patterns of get_entity, as character sequences
NODES == <<"_", "n", "o", "d", "e", "s">>
EDGES == <<"_", "e", "d", "g", "e", "s">>

EntityIds == {"MONDO:1", "MONDO:2", "HP:1"}
MissingIds == {"MONDO:404"}
OtherIds == {"MONDO:0", "MONDO:3", "HP:2", "OMIM:1"}
Ids == EntityIds \cup MissingIds \cup OtherIds

CategoryOf(id) ==
    IF id \in {"MONDO:0", "MONDO:1", "MONDO:2", "MONDO:3", "OMIM:1"} THEN Disease ELSE Phenotype

LabelOf(id) ==
    CASE id = "MONDO:0" -> "disease"
      [] id = "MONDO:1" -> "muscular dystrophy"
      [] id = "MONDO:2" -> "Duchenne muscular dystrophy"
      [] id = "MONDO:3" -> "Becker muscular dystrophy"
      [] id = "OMIM:1" -> "MUSCULAR DYSTROPHY"
      [] id = "HP:1" -> "Autosomal recessive inheritance"
      [] OTHER -> "X-linked inheritance"

\* the documents of the entity core
EntityDoc(id) ==
    CASE id = "MONDO:1" ->
            [t |-> "doc", id |-> id, name |-> LabelOf(id), category |-> <<Disease>>,
             xref |-> <<"OMIM:1", "XX:9">>,
             provided_by |-> Str(<<"p", "h">> \o NODES)]
      [] id = "MONDO:2" ->
            [t |-> "doc", id |-> id, name |-> LabelOf(id), category |-> <<Disease>>,
             xref |-> <<>>,
             provided_by |-> Str(<<"a">> \o NODES \o <<"b">> \o EDGES)]
      [] OTHER ->
            [t |-> "doc", id |-> id, name |-> LabelOf(id), category |-> <<Phenotype>>,
             xref |-> <<"XX:9">>,
             provided_by |-> None]

\* a document of the association core; the closures are the ancestors
Assoc(s, p, o, sc, oc) ==
    [subject |-> s, subject_label |-> LabelOf(s), subject_category |-> CategoryOf(s),
     subject_closure |-> sc \cup {s},
     predicate |-> p, category |-> "biolink:Association",
     object |-> o, object_label |-> LabelOf(o), object_category |-> CategoryOf(o),
     object_closure |-> oc \cup {o}]

AssociationDocs ==
    { Assoc("MONDO:1", HAS_MODE_OF_INHERITANCE, "HP:1", {"MONDO:0"}, {}),
      Assoc("MONDO:2", HAS_MODE_OF_INHERITANCE, "HP:2", {"MONDO:1", "MONDO:0"}, {}),
      Assoc("MONDO:2", SUBCLASS_OF, "MONDO:1", {"MONDO:1", "MONDO:0"}, {"MONDO:0"}),
      Assoc("MONDO:3", SUBCLASS_OF, "MONDO:1", {"MONDO:1", "MONDO:0"}, {"MONDO:0"}),
      Assoc("MONDO:1", SUBCLASS_OF, "MONDO:0", {"MONDO:0"}, {}),
      Assoc("MONDO:1", SAME_AS, "OMIM:1", {"MONDO:0"}, {}),
      Assoc("OMIM:1", SAME_AS, "MONDO:1", {}, {"MONDO:0"}) }

----------------------------------------------------------------------------
(* Query builders (solr_query_utils): a query description is the record of *)
(* the builder's keyword arguments, the ones not passed at their default   *)

BuilderDefaults ==
    [category |-> None, predicate |-> None, subject |-> None, object |-> None,
     entity |-> None, subject_closure |-> None, object_closure |-> None,
     direct |-> None, facet_fields |-> None, facet_queries |-> None]

build_association_query(kwargs) ==
    Over([builder |-> "association"], Over(kwargs, BuilderDefaults))

build_association_counts_query(entity) ==
    [builder |-> "association_counts", entity |-> entity]

build_histopheno_query(subject_closure) ==
    [builder |-> "histopheno", subject_closure |-> subject_closure]

build_association_table_query(entity, category, q, sort, offset, limit) ==
    [builder |-> "association_table", entity |-> entity, category |-> category,
     q |-> q, sort |-> sort, offset |-> offset, limit |-> limit]

build_search_query(args) == Over([builder |-> "search"], args)

build_autocomplete_query(q) == [builder |-> "autocomplete", q |-> q]

----------------------------------------------------------------------------
(* The Solr gateway (SolrService): which documents a query matches, and    *)
(* the responses it may answer with                                        *)

\* direct: exact match on the field; otherwise the closure matches as well
MatchesSide(v, direct, id, closure) ==
    v = None \/ \E m \in Members(v) : m = id \/ (~Truthy(direct) /\ m \in closure)

Matches(q, a) ==
    /\ q.category = None \/ a.category \in Members(q.category)
    /\ q.predicate = None \/ a.predicate \in Members(q.predicate)
    /\ MatchesSide(q.subject, q.direct, a.subject, a.subject_closure)
    /\ MatchesSide(q.object, q.direct, a.object, a.object_closure)
    /\ \/ q.entity = None
       \/ \E m \in Members(q.entity) :
             \/ m \in {a.subject, a.object}
             \/ ~Truthy(q.direct) /\ m \in a.subject_closure \cup a.object_closure
    /\ q.subject_closure = None \/ Members(q.subject_closure) \subseteq a.subject_closure
    /\ q.object_closure = None \/ Members(q.object_closure) \subseteq a.object_closure

Offsets == {0, 1}
Limits == {0, 20}

\* the windows a response may report
ReportedWindows == {<<0, 20>>, <<1, 10>>}

BackendUnavailableError == Error("BackendUnavailableError")
NotFoundError == Error("NotFoundError")

Response(n, s, l, d, ff, fq) ==
    [t |-> "SolrQueryResult", num_found |-> n, start |-> s, limit |-> l, docs |-> d,
     facet_fields |-> ff, facet_queries |-> fq]

\* flat alternating value/count sequences of a facet field
FlatCounts == {<<>>, <<"A", 5, "B", 3>>, <<"B", 3, "A", 5>>}
\* the counts of a facet query
QueryCounts == {0, 7}

NoFacets == [x \in {} |-> 0]

FacetAnswers(requested, answers) ==
    IF requested = None THEN {NoFacets} ELSE [Members(requested) -> answers]

\* a page of at most rows documents out of the matching ones, a total that
\* does not depend on the page, and the window the backend reports
Windowed(matching, rows, ffs, fqs) ==
    UNION {{Response(n, w[1], w[2], d, ff, fq) :
               n \in {Len(d), MaxTotal}, w \in ReportedWindows, ff \in ffs, fq \in fqs} :
           d \in {p \in Pages(matching) : Len(p) <= rows}}

\* the fixed reference enumeration of association categories
ReferenceCategories == <<"disease", "phenotype">>

CountAnswers == UNION {[S -> QueryCounts] : S \in SUBSET Range(ReferenceCategories)}

\* the fixed phenotype-category label table
HistoPhenoKeys ==
    <<[id |-> "HP:0003011", label |-> "musculature"],
      [id |-> "HP:0000707", label |-> "nervous_system"]>>

\* the categories a backend may answer buckets for: the table's and one more
HistoBuckets == {HistoPhenoKeys[i].id : i \in DOMAIN HistoPhenoKeys} \cup {"HP:9999999"}

HistoAnswers == UNION {[S -> QueryCounts] : S \in SUBSET HistoBuckets}

SolrQuery(q) ==
    {BackendUnavailableError} \cup
    CASE q.builder = "association" ->
            Windowed({a \in AssociationDocs : Matches(q, a)}, q.limit,
                     FacetAnswers(q.facet_fields, FlatCounts),
                     FacetAnswers(q.facet_queries, QueryCounts))
      [] q.builder = "association_table" ->
            Windowed({a \in AssociationDocs : q.entity \in a.subject_closure \cup a.object_closure},
                     q.limit, {NoFacets}, {NoFacets})
      [] q.builder = "search" ->
            Windowed({EntityDoc(id) : id \in EntityIds}, q.limit, {NoFacets}, {NoFacets})
      [] q.builder = "association_counts" ->
            Windowed({}, 0, {NoFacets}, CountAnswers)
      [] q.builder = "histopheno" ->
            Windowed({}, 0, {NoFacets}, HistoAnswers)
      [] OTHER ->
            Windowed({EntityDoc(id) : id \in EntityIds}, MaxItems, {NoFacets}, {NoFacets})

\* the ids an association query filters its endpoints by
FilterIds(q) ==
    UNION {IF v = None THEN {} ELSE Members(v) : v \in {q.subject, q.object, q.entity}}

\* a backend that does not hold to the endpoint filters of an association
\* query: its answer may also be a page of one association that has none of
\* the filter's ids as subject or object
SolrQueryUnfiltered(q) ==
    SolrQuery(q) \cup
    IF q.builder = "association" /\ q.limit >= 1
    THEN {Response(1, q.offset, q.limit, <<a>>, NoFacets, NoFacets) :
             a \in {d \in AssociationDocs : FilterIds(q) \cap {d.subject, d.object} = {}}}
    ELSE {}

\* a backend of fixed contents that is always reachable: one answer for each
\* query, the whole of the matching documents from the first one on
FixedAnswer(q) ==
    CHOOSE r \in SolrQuery(q) :
        /\ ~IsError(r)
        /\ r.start = 0 /\ r.num_found = Len(r.docs)
        /\ \A r2 \in SolrQuery(q) : ~IsError(r2) => Len(r2.docs) <= Len(r.docs)

\* the answers of the backend a specification runs against
Answers(backend, q) ==
    CASE backend = "unfiltered" -> SolrQueryUnfiltered(q)
      [] backend = "fixed" -> {FixedAnswer(q)}
      [] OTHER -> SolrQuery(q)

\* SolrService.get: the document with exactly this id
SolrGet(id) ==
    {BackendUnavailableError} \cup
    (IF id \in EntityIds THEN {EntityDoc(id)} ELSE {NotFoundError})

\* the answers to an exact-id lookup of the backend a specification runs against
Gets(backend, id) ==
    IF backend = "fixed" THEN SolrGet(id) \ {BackendUnavailableError} ELSE SolrGet(id)

----------------------------------------------------------------------------
(* Response parsers (solr_parsers) and lookup collaborators *)

parse_entity(doc) == Over([t |-> "Entity"], doc)

parse_associations(query_result) ==
    [t |-> "AssociationResults", limit |-> query_result.limit,
     offset |-> query_result.start, total |-> query_result.num_found,
     items |-> query_result.docs]

\* [v1, c1, v2, c2, ...] of each field to [(v1, c1), (v2, c2), ...]
convert_facet_fields(facet_fields) ==
    [f \in DOMAIN facet_fields |->
        [i \in 1..(Len(facet_fields[f]) \div 2) |->
            <<facet_fields[f][2 * i - 1], facet_fields[f][2 * i]>>]]

convert_facet_queries(facet_queries) == facet_queries

parse_search(query_result) ==
    [t |-> "SearchResults", limit |-> query_result.limit,
     offset |-> query_result.start, total |-> query_result.num_found,
     items |-> [i \in 1..Len(query_result.docs) |-> parse_entity(query_result.docs[i])],
     facet_fields |-> convert_facet_fields(query_result.facet_fields),
     facet_queries |-> convert_facet_queries(query_result.facet_queries)]

parse_autocomplete(query_result) == parse_search(query_result)

parse_mappings(query_result) ==
    [t |-> "MappingResults", limit |-> query_result.limit,
     offset |-> query_result.start, total |-> query_result.num_found,
     items |-> query_result.docs]

parse_association_table(query_result, entity, offset, limit) ==
    [t |-> "AssociationTableResults", entity |-> entity, offset |-> offset,
     limit |-> limit, total |-> query_result.num_found, items |-> query_result.docs]

parse_association_counts(query_result, entity) ==
    [t |-> "AssociationCountList",
     items |-> [i \in 1..Len(ReferenceCategories) |->
                  [category |-> ReferenceCategories[i],
                   count |-> IF ReferenceCategories[i] \in DOMAIN query_result.facet_queries
                             THEN query_result.facet_queries[ReferenceCategories[i]]
                             ELSE 0]]]


\* bins by descending count, equal counts in their given order
RECURSIVE ByCount(_)
ByCount(bins) ==
    IF bins = <<>> THEN <<>>
    ELSE LET top == CHOOSE i \in 1..Len(bins) :
                       /\ \A j \in 1..Len(bins) : bins[j].count <= bins[i].count
                       /\ \A j \in 1..(i - 1) : bins[j].count < bins[i].count
             rest == [j \in 1..(Len(bins) - 1) |-> IF j < top THEN bins[j] ELSE bins[j + 1]]
         IN <<bins[top]>> \o ByCount(rest)

\* one bin per answered bucket of the label table; other buckets are dropped
parse_histopheno(query_result, subject_closure) ==
    LET present(k) == k.id \in DOMAIN query_result.facet_queries
        keys == SelectSeq(HistoPhenoKeys, present)
    IN [t |-> "HistoPheno", id |-> subject_closure,
        items |-> ByCount([i \in 1..Len(keys) |->
                             [label |-> keys[i].label, id |-> keys[i].id,
                              count |-> query_result.facet_queries[keys[i].id]]])]

\* CurieService.expand: the URL of a namespaced identifier, None without a mapping
CurieExpand(curie) ==
    IF curie = "OMIM:1" THEN Str("https://omim.org/entry/1") ELSE None

\* get_provided_by_link: the URL of a data-source tag
get_provided_by_link(provided_by) == [t |-> "url", source |-> provided_by]

----------------------------------------------------------------------------
(* SolrImplementation: the pure parts of its methods *)

\* the error kind of the ValueError of _get_associated_entity
InvariantViolationError == Error("ValueError")

Entity(id, name, category) ==
    [t |-> "Entity", id |-> id, name |-> name, category |-> category]


\* faulty variant: the object side returned under the subject's label
get_associated_entity_mislabelled(association, this_entity) ==
    IF this_entity.id = association.subject
    THEN Entity(association.object, association.subject_label, association.object_category)
    ELSE IF this_entity.id = association.object
    THEN Entity(association.subject, association.subject_label,
                association.subject_category)
    ELSE InvariantViolationError

\* faulty variant: the object tested before the subject
get_associated_entity_object_first(association, this_entity) ==
    IF this_entity.id = association.object
    THEN Entity(association.subject, association.subject_label,
                association.subject_category)
    ELSE IF this_entity.id = association.subject
    THEN Entity(association.object, association.object_label, association.object_category)
    ELSE InvariantViolationError

get_associated_entity(association, this_entity) ==
    IF this_entity.id = association.subject
    THEN Entity(association.object, association.object_label, association.object_category)
    ELSE IF this_entity.id = association.object
    THEN Entity(association.subject, association.subject_label,
                association.subject_category)
    ELSE InvariantViolationError


\* faulty variant: a bare string is forwarded as it is
Normalize_forwarded(x) == x

\* [x] if isinstance(x, str) else x
Normalize(x) == IF x.t = "str" THEN List(<<x.s>>) ELSE x

\* the defaults of get_associations' parameters
GetAssociationsDefaults ==
    [category |-> None, subject |-> None, predicate |-> None, object |-> None,
     subject_closure |-> None, object_closure |-> None, entity |-> None,
     direct |-> None, offset |-> 0, limit |-> 20]

get_associations_query(args) ==
    build_association_query(
        [category |-> Normalize(args.category),
         predicate |-> Normalize(args.predicate),
         subject |-> Normalize(args.subject),
         object |-> Normalize(args.object),
         entity |-> Normalize(args.entity),
         subject_closure |-> args.subject_closure,
         object_closure |-> args.object_closure,
         direct |-> args.direct,
         offset |-> args.offset,
         limit |-> args.limit])


\* faulty variant: the total recomputed from the page
get_associations_result_recounted(query_result) ==
    [parse_associations(query_result) EXCEPT !.total = Len(query_result.docs)]

get_associations_result(query_result) == parse_associations(query_result)

get_association_facets_query(args) ==
    build_association_query(
        [category |-> Normalize(args.category),
         predicate |-> Normalize(args.predicate),
         subject |-> Normalize(args.subject),
         object |-> Normalize(args.object),
         entity |-> Normalize(args.entity),
         subject_closure |-> args.subject_closure,
         object_closure |-> args.object_closure,
         offset |-> 0,
         limit |-> 0,
         facet_fields |-> args.facet_fields,
         facet_queries |-> args.facet_queries])


\* faulty variant: the total taken from the (empty) page
get_association_facets_result_recounted(query_result) ==
    [t |-> "SearchResults", limit |-> 0, offset |-> 0,
     total |-> Len(query_result.docs), items |-> <<>>,
     facet_fields |-> convert_facet_fields(query_result.facet_fields),
     facet_queries |-> convert_facet_queries(query_result.facet_queries)]

\* faulty variant: the values of every facet field in reverse order
get_association_facets_result_reversed(query_result) ==
    LET converted == convert_facet_fields(query_result.facet_fields)
    IN [t |-> "SearchResults", limit |-> 0, offset |-> 0,
        total |-> query_result.num_found, items |-> <<>>,
        facet_fields |-> [f \in DOMAIN converted |->
                            [i \in 1..Len(converted[f]) |->
                                converted[f][Len(converted[f]) + 1 - i]]],
        facet_queries |-> convert_facet_queries(query_result.facet_queries)]

get_association_facets_result(query_result) ==
    [t |-> "SearchResults", limit |-> 0, offset |-> 0,
     total |-> query_result.num_found, items |-> <<>>,
     facet_fields |-> convert_facet_fields(query_result.facet_fields),
     facet_queries |-> convert_facet_queries(query_result.facet_queries)]

\* faulty variant: the categories without a match left out
get_association_counts_result_sparse(query_result, entity) ==
    [parse_association_counts(query_result, entity) EXCEPT
        !.items = SelectSeq(@, LAMBDA c : c.count > 0)]

get_association_counts_result(query_result, entity) ==
    parse_association_counts(query_result, entity)

\* faulty variant: the subject closure not handed to the parser
get_histopheno_result_anonymous(query_result, subject_closure) ==
    parse_histopheno(query_result, "")

get_histopheno_result(query_result, subject_closure) ==
    parse_histopheno(query_result, subject_closure)

get_association_table_query(args) ==
    build_association_table_query(args.entity, args.category, args.q, args.sort,
                                  args.offset, args.limit)


\* faulty variant: the parser given the default window instead of the request's
get_association_table_result_defaults(query_result, args) ==
    parse_association_table(query_result, args.entity, 0, 5)

get_association_table_result(query_result, args) ==
    parse_association_table(query_result, args.entity, args.offset, args.limit)

\* Node(**solr_document): the derived fields start unset
Node(solr_document) ==
    Over([t |-> "Node"],
         Over(solr_document,
              [inheritance |-> None, node_hierarchy |-> None, association_counts |-> None,
               external_links |-> None, provided_by_link |-> None]))


\* faulty variant: the exception swallowed, the next step taken
after_call_swallowed(outcome, next) == next

\* an exception raised by a call leaves get_entity at once: nothing catches it
after_call(outcome, next) == IF IsError(outcome) THEN "failed" ELSE next


\* faulty variant: the extra flag ignored, every entity expanded
get_entity_lookup_expanding(solr_document, extra) ==
    IF IsError(solr_document)
    THEN [node |-> None, result |-> solr_document]
    ELSE [node |-> Node(solr_document), result |-> None]

\* faulty variant: a failed lookup answered with no entity instead of the failure
get_entity_lookup_absent(solr_document, extra) ==
    IF IsError(solr_document)
    THEN [node |-> None, result |-> None]
    ELSE IF ~extra
    THEN [node |-> None, result |-> parse_entity(solr_document)]
    ELSE [node |-> Node(solr_document), result |-> None]

\* get_entity after solr.get(id): the bare entity, or the Node to expand
get_entity_lookup(solr_document, extra) ==
    IF IsError(solr_document)
    THEN [node |-> None, result |-> solr_document]
    ELSE IF ~extra
    THEN [node |-> None, result |-> parse_entity(solr_document)]
    ELSE [node |-> Node(solr_document), result |-> None]

\* faulty variant: the inheritance lookup made for every category
first_expansion_always(n) == "inheritance"

\* the step after Node(**solr_document)
first_expansion(n) ==
    IF Disease \in Range(n.category) THEN "inheritance" ELSE "super_classes"

\* the arguments of the has_mode_of_inheritance lookup
inheritance_args(id) ==
    Over([subject |-> Str(id), predicate |-> Str(HAS_MODE_OF_INHERITANCE), offset |-> 0],
         GetAssociationsDefaults)


\* faulty variant: the first association taken when there are several
inheritance_of_first(associations, n) ==
    IF associations # None /\ Len(associations.items) >= 1
    THEN get_associated_entity(associations.items[1], n)
    ELSE n.inheritance

\* node.inheritance after the lookup: resolved only from exactly one association
inheritance_of(associations, n) ==
    IF associations # None /\ Len(associations.items) = 1
    THEN get_associated_entity(associations.items[1], n)
    ELSE n.inheritance


\* faulty variant: the sub classes looked up on the subject side as well
hierarchy_kwargs_subject(which, entity) ==
    CASE which = "equivalent_classes" ->
            [entity |-> Str(entity.id), predicate |-> Str(SAME_AS)]
      [] OTHER ->
            [subject |-> Str(entity.id), predicate |-> Str(SUBCLASS_OF)]

\* the keyword arguments of the three calls of _get_node_hierarchy
hierarchy_kwargs(which, entity) ==
    CASE which = "super_classes" ->
            [subject |-> Str(entity.id), predicate |-> Str(SUBCLASS_OF)]
      [] which = "equivalent_classes" ->
            [entity |-> Str(entity.id), predicate |-> Str(SAME_AS)]
      [] OTHER ->
            [object |-> Str(entity.id), predicate |-> Str(SUBCLASS_OF)]

\* the get_associations call of _get_associated_entities
get_associated_entities_args(kwargs) ==
    Over([direct |-> Bool(TRUE), offset |-> 0],
         Over(kwargs,
              Over([entity |-> None, subject |-> None, predicate |-> None, object |-> None],
                   GetAssociationsDefaults)))

\* faulty variant: an association without the entity is passed over
get_associated_entities_skipping(items, this_entity) ==
    LET holds(a) == this_entity.id \in {a.subject, a.object}
        kept == SelectSeq(items, holds)
    IN List([i \in 1..Len(kept) |-> get_associated_entity(kept[i], this_entity)])

\* faulty variant: the entities in reverse order
get_associated_entities_reversed(items, this_entity) ==
    IF \E i \in 1..Len(items) : IsError(get_associated_entity(items[i], this_entity))
    THEN InvariantViolationError
    ELSE List([i \in 1..Len(items) |->
                 get_associated_entity(items[Len(items) + 1 - i], this_entity)])

\* the list comprehension of _get_associated_entities
get_associated_entities(items, this_entity) ==
    IF \E i \in 1..Len(items) : IsError(get_associated_entity(items[i], this_entity))
    THEN InvariantViolationError
    ELSE List([i \in 1..Len(items) |-> get_associated_entity(items[i], this_entity)])

NodeHierarchy(h) ==
    [t |-> "NodeHierarchy", super_classes |-> h.super_classes,
     equivalent_classes |-> h.equivalent_classes, sub_classes |-> h.sub_classes]

ExpandedCurie(id, url) == [t |-> "ExpandedCurie", id |-> id, url |-> url]

\* faulty variant: identifiers without a mapping are left out
external_links_of_mapped(n) ==
    LET mapped(curie) == CurieExpand(curie) # None
        curies == SelectSeq(n.xref, mapped)
    IN List([i \in 1..Len(curies) |-> ExpandedCurie(curies[i], CurieExpand(curies[i]))])

external_links_of(n) ==
    List([i \in 1..Len(n.xref) |-> ExpandedCurie(n.xref[i], CurieExpand(n.xref[i]))])

\* str.replace(old, ""): every occurrence of old removed, left to right
RECURSIVE Replace(_, _)
Replace(s, old) ==
    IF Len(s) < Len(old) THEN s
    ELSE IF SubSeq(s, 1, Len(old)) = old
    THEN Replace(SubSeq(s, Len(old) + 1, Len(s)), old)
    ELSE <<s[1]>> \o Replace(Tail(s), old)

provided_by_link_of(n) ==
    IF n.provided_by = None
    THEN Error("AttributeError")
    ELSE ExpandedCurie(Str(Replace(Replace(n.provided_by.s, NODES), EDGES)),
                       get_provided_by_link(n.provided_by))

----------------------------------------------------------------------------
(* The callers' inputs *)

\* a scalar-or-list parameter: unset, a bare string, a singleton list, a list
ScalarOrList(vs) == {None, Str(vs[1]), List(<<vs[1]>>), List(vs)}

FilterArgs ==
    {f \in [category : ScalarOrList(<<"biolink:Association">>),
            predicate : ScalarOrList(<<SUBCLASS_OF, SAME_AS>>),
            subject : ScalarOrList(<<"MONDO:1", "MONDO:2">>),
            object : ScalarOrList(<<"MONDO:1">>),
            entity : ScalarOrList(<<"MONDO:1">>),
            subject_closure : {None, Str("MONDO:0")},
            object_closure : {None, Str("MONDO:0")}] :
        Cardinality({k \in DOMAIN f : f[k] # None}) <= MaxFilters}

FacetFieldArgs == {None, List(<<"category">>)}
FacetQueryArgs == {None, List(<<"object_closure:HP:1">>)}

Call(kind, what) == [kind |-> kind, what |-> what]

----------------------------------------------------------------------------
(* The state machine *)

\* the local state of an invocation before it starts
Fresh ==
    [pc |-> "ready", req |-> None, node |-> None, hier |-> None, moi |-> None,
     calls |-> <<>>, response |-> None, result |-> None]

\* the local state of the invocation that is running
Locals ==
    [pc |-> pc, req |-> req, node |-> node, hier |-> hier, moi |-> moi,
     calls |-> calls, response |-> response, result |-> result]

\* other is the local state of a second invocation that waits at a backend call
Init ==
    /\ pc = "ready"
    /\ req = None
    /\ node = None
    /\ hier = None
    /\ moi = None
    /\ calls = <<>>
    /\ response = None
    /\ result = None
    /\ other = Fresh

\* no operation is under way
Ready == pc = "ready"

\* an operation of one backend round trip: build the query, send it, parse
RoundTrip(request, query, outcome, parsed) ==
    /\ req' = request
    /\ calls' = <<Call("query", query)>>
    /\ response' = outcome
    /\ pc' = after_call(outcome, "done")
    /\ result' = IF IsError(outcome) THEN outcome ELSE parsed
    /\ node' = None
    /\ hier' = None
    /\ moi' = None
    /\ UNCHANGED other

get_associations ==
    /\ Ready
    /\ \E f \in FilterArgs, direct \in {None, Bool(TRUE)}, offset \in Offsets, limit \in Limits :
        LET args == Over(f, [direct |-> direct, offset |-> offset, limit |-> limit])
            query == get_associations_query(args)
        IN \E query_result \in SolrQuery(query) :
              RoundTrip([op |-> "get_associations", args |-> args], query, query_result,
                        get_associations_result(query_result))

get_association_facets ==
    /\ Ready
    /\ \E f \in FilterArgs, ff \in FacetFieldArgs, fq \in FacetQueryArgs :
        LET args == Over(f, [facet_fields |-> ff, facet_queries |-> fq])
            query == get_association_facets_query(args)
        IN \E query_result \in SolrQuery(query) :
              RoundTrip([op |-> "get_association_facets", args |-> args], query,
                        query_result, get_association_facets_result(query_result))

get_association_table ==
    /\ Ready
    /\ \E entity \in {"MONDO:1", "HP:1"}, offset \in Offsets, limit \in {1, 5} :
        LET args == [entity |-> entity,
                     category |-> "biolink:DiseaseToPhenotypicFeatureAssociation",
                     q |-> None, sort |-> None, offset |-> offset, limit |-> limit]
            query == get_association_table_query(args)
        IN \E query_result \in SolrQuery(query) :
              RoundTrip([op |-> "get_association_table", args |-> args], query,
                        query_result, get_association_table_result(query_result, args))

search ==
    /\ Ready
    /\ \E q \in {"*:*", "fanconi"}, offset \in Offsets, limit \in Limits,
       category \in {None, List(<<Disease>>)} :
        LET args == [q |-> q, offset |-> offset, limit |-> limit, category |-> category,
                     in_taxon |-> None, facet_fields |-> None, facet_queries |-> None,
                     filter_queries |-> None, sort |-> None]
            query == build_search_query(args)
        IN \E query_result \in SolrQuery(query) :
              RoundTrip([op |-> "search", args |-> args], query, query_result,
                        parse_search(query_result))

autocomplete ==
    /\ Ready
    /\ \E q \in {"fanconi"} :
        LET query == build_autocomplete_query(q)
        IN \E query_result \in SolrQuery(query) :
              RoundTrip([op |-> "autocomplete", q |-> q], query, query_result,
                        parse_autocomplete(query_result))

AssociationCountsOn(backend) ==
    /\ Ready
    /\ \E entity \in EntityIds :
        LET query == build_association_counts_query(entity)
        IN \E query_result \in Answers(backend, query) :
              RoundTrip([op |-> "get_association_counts", entity |-> entity], query,
                        query_result, get_association_counts_result(query_result, entity))

get_histopheno ==
    /\ Ready
    /\ \E subject_closure \in EntityIds :
        LET query == build_histopheno_query(subject_closure)
        IN \E query_result \in SolrQuery(query) :
              RoundTrip([op |-> "get_histopheno", subject_closure |-> subject_closure],
                        query, query_result,
                        get_histopheno_result(query_result, subject_closure))

get_association_counts == AssociationCountsOn("filtering")

\* the documents of the mapping fixture
MappingDocs ==
    {[subject_id |-> "MONDO:0020121", predicate_id |-> "skos:exactMatch", object_id |-> o] :
        o \in {"DOID:9884", "ICD10CM:G71.0", "MESH:D009136"}}

\* test_parse_mappings: the parser applied to a response
test_parse_mappings ==
    /\ Ready
    /\ \E solr_response \in Windowed(MappingDocs, MaxItems, {NoFacets}, {NoFacets}) :
        /\ req' = [op |-> "parse_mappings"]
        /\ calls' = <<>>
        /\ response' = solr_response
        /\ pc' = "done"
        /\ result' = parse_mappings(solr_response)
        /\ node' = None
        /\ hier' = None
        /\ moi' = None
        /\ UNCHANGED other

\* the window and the items of the autocomplete fixture
AutocompleteLimit == 10
AutocompleteOffset == 0
AutocompleteTotal == 215

AutocompleteIds ==
    <<"MONDO:0001083", "MONDO:0009215", "MONDO:0013566", "MONDO:0010953",
      "MONDO:0024525", "MONDO:0019391", "MONDO:0013248", "MONDO:0013499",
      "MONDO:0014985", "MONDO:0010351", "MONDO:0012565", "MONDO:0014986",
      "MONDO:0014987", "MONDO:0009213", "MONDO:0009214", "MONDO:0012186",
      "MONDO:0014108", "MONDO:0014638", "MONDO:0011325", "MONDO:0012187">>

\* the response whose parse is the autocomplete fixture
AutocompleteResponse ==
    Response(AutocompleteTotal, AutocompleteOffset, AutocompleteLimit,
             [i \in 1..Len(AutocompleteIds) |->
                 [t |-> "doc", id |-> AutocompleteIds[i], category |-> Disease,
                  xref |-> <<>>, provided_by |-> Str(<<"p", "h">> \o NODES)]],
             NoFacets, NoFacets)

\* test_parse_autocomplete: the parser applied to the fixture's response
test_parse_autocomplete ==
    /\ Ready
    /\ req' = [op |-> "parse_autocomplete"]
    /\ calls' = <<>>
    /\ response' = AutocompleteResponse
    /\ pc' = "done"
    /\ result' = parse_autocomplete(AutocompleteResponse)
    /\ node' = None
    /\ hier' = None
    /\ moi' = None
    /\ UNCHANGED other

\* _get_associated_entity on any association and reference entity
\* an association from an entity to itself, the two sides labelled apart
SelfAssociation ==
    [Assoc("MONDO:1", SAME_AS, "MONDO:1", {}, {}) EXCEPT
        !.object_label = "muscular dystrophy (disease)"]

resolve_associated_entity ==
    /\ Ready
    /\ \E association \in AssociationDocs \cup {SelfAssociation}, id \in Ids :
        LET this_entity == Entity(id, LabelOf(id), CategoryOf(id))
            entity == get_associated_entity(association, this_entity)
        IN /\ req' = [op |-> "_get_associated_entity", association |-> association,
                      this_entity |-> this_entity]
           /\ calls' = <<>>
           /\ response' = None
           /\ pc' = after_call(entity, "done")
           /\ result' = entity
           /\ node' = None
           /\ hier' = None
           /\ moi' = None
           /\ UNCHANGED other

(* get_entity, one action for each backend round trip *)

LookupStep(backend) ==
    /\ Ready
    /\ \E id \in EntityIds \cup MissingIds, extra \in BOOLEAN :
        \E solr_document \in Gets(backend, id) :
            LET after == get_entity_lookup(solr_document, extra)
            IN /\ req' = [op |-> "get_entity", id |-> id, extra |-> extra]
               /\ calls' = <<Call("get", id)>>
               /\ response' = solr_document
               /\ node' = after.node
               /\ result' = after.result
               /\ pc' = after_call(solr_document,
                                   IF after.node = None THEN "done"
                                   ELSE first_expansion(after.node))
               /\ hier' = None
               /\ moi' = None
               /\ UNCHANGED other

get_entity == LookupStep("filtering")

InheritanceStep(backend) ==
    /\ pc = "inheritance"
    /\ LET query == get_associations_query(inheritance_args(req.id))
       IN \E query_result \in Answers(backend, query) :
             LET associations == IF IsError(query_result) THEN query_result
                                 ELSE get_associations_result(query_result)
                 inheritance == IF IsError(associations) THEN associations
                                ELSE inheritance_of(associations, node)
             IN /\ calls' = Append(calls, Call("query", query))
                /\ response' = query_result
                /\ moi' = associations
                /\ pc' = after_call(inheritance, "super_classes")
                /\ node' = IF IsError(inheritance) THEN node
                           ELSE [node EXCEPT !.inheritance = inheritance]
                /\ result' = IF IsError(inheritance) THEN inheritance ELSE result
                /\ UNCHANGED <<req, hier, other>>

get_entity_inheritance == InheritanceStep("filtering")

\* one call of _get_associated_entities inside _get_node_hierarchy
HierarchyStepOn(which, next, backend) ==
    /\ pc = which
    /\ LET query == get_associations_query(
                        get_associated_entities_args(hierarchy_kwargs(which, node)))
       IN \E query_result \in Answers(backend, query) :
             LET entities == IF IsError(query_result) THEN query_result
                             ELSE get_associated_entities(
                                      get_associations_result(query_result).items, node)
                 h == IF hier = None THEN [x \in {which} |-> entities]
                      ELSE Over([x \in {which} |-> entities], hier)
             IN /\ calls' = Append(calls, Call("query", query))
                /\ response' = query_result
                /\ pc' = after_call(entities, next)
                /\ hier' = IF IsError(entities) THEN hier ELSE h
                /\ node' = IF ~IsError(entities) /\ which = "sub_classes"
                           THEN [node EXCEPT !.node_hierarchy = NodeHierarchy(h)]
                           ELSE node
                /\ result' = IF IsError(entities) THEN entities ELSE result
                /\ UNCHANGED <<req, moi, other>>

HierarchyStep(which, next) == HierarchyStepOn(which, next, "filtering")

get_entity_super_classes == HierarchyStep("super_classes", "equivalent_classes")
get_entity_equivalent_classes == HierarchyStep("equivalent_classes", "sub_classes")
get_entity_sub_classes == HierarchyStep("sub_classes", "association_counts")

CountsStep(backend) ==
    /\ pc = "association_counts"
    /\ LET query == build_association_counts_query(req.id)
       IN \E query_result \in Answers(backend, query) :
             /\ calls' = Append(calls, Call("query", query))
             /\ response' = query_result
             /\ pc' = after_call(query_result, "external_links")
             /\ node' = IF IsError(query_result) THEN node
                        ELSE [node EXCEPT !.association_counts =
                                 List(get_association_counts_result(query_result, req.id).items)]
             /\ result' = IF IsError(query_result) THEN query_result ELSE result
             /\ UNCHANGED <<req, hier, moi, other>>

get_entity_association_counts == CountsStep("filtering")

\* faulty variant: the reference list read from the Node of the other invocation
get_entity_external_links_shared ==
    /\ pc = "external_links"
    /\ LET n == IF other.node # None THEN other.node ELSE node
       IN /\ calls' = calls \o [i \in 1..Len(n.xref) |-> Call("expand", n.xref[i])]
          /\ node' = [node EXCEPT !.external_links = external_links_of(n)]
    /\ pc' = "provided_by_link"
    /\ UNCHANGED <<req, hier, moi, response, result, other>>

\* faulty variant: the association counts cleared when the links are attached
get_entity_external_links_clearing ==
    /\ pc = "external_links"
    /\ calls' = calls \o [i \in 1..Len(node.xref) |-> Call("expand", node.xref[i])]
    /\ node' = [node EXCEPT !.external_links = external_links_of(node),
                            !.association_counts = None]
    /\ pc' = "provided_by_link"
    /\ UNCHANGED <<req, hier, moi, response, result, other>>

get_entity_external_links ==
    /\ pc = "external_links"
    /\ calls' = calls \o [i \in 1..Len(node.xref) |-> Call("expand", node.xref[i])]
    /\ node' = [node EXCEPT !.external_links = external_links_of(node)]
    /\ pc' = "provided_by_link"
    /\ UNCHANGED <<req, hier, moi, response, result, other>>

get_entity_provided_by_link ==
    /\ pc = "provided_by_link"
    /\ LET link == provided_by_link_of(node)
       IN /\ calls' = IF IsError(link) THEN calls
                      ELSE Append(calls, Call("get_provided_by_link", node.provided_by))
          /\ pc' = after_call(link, "done")
          /\ node' = IF IsError(link) THEN node ELSE [node EXCEPT !.provided_by_link = link]
          /\ result' = IF IsError(link) THEN link
                       ELSE [node EXCEPT !.provided_by_link = link]
    /\ UNCHANGED <<req, hier, moi, response, other>>

\* the caller takes the result or the exception; nothing outlives the call
return_to_caller ==
    /\ pc \in {"done", "failed"}
    /\ pc' = "ready"
    /\ req' = None
    /\ node' = None
    /\ hier' = None
    /\ moi' = None
    /\ calls' = <<>>
    /\ response' = None
    /\ result' = None
    /\ UNCHANGED other

Next ==
    \/ get_entity
    \/ get_entity_inheritance
    \/ get_entity_super_classes
    \/ get_entity_equivalent_classes
    \/ get_entity_sub_classes
    \/ get_entity_association_counts
    \/ get_entity_external_links
    \/ get_entity_provided_by_link
    \/ resolve_associated_entity
    \/ get_associations
    \/ get_association_facets
    \/ get_association_table
    \/ get_histopheno
    \/ get_association_counts
    \/ search
    \/ autocomplete
    \/ test_parse_mappings
    \/ test_parse_autocomplete
    \/ return_to_caller

Spec == Init /\ [][Next]_vars

\* get_entity against the backend that does not hold to the filters
get_entity_inheritance_unfiltered == InheritanceStep("unfiltered")

get_entity_super_classes_unfiltered ==
    HierarchyStepOn("super_classes", "equivalent_classes", "unfiltered")

get_entity_equivalent_classes_unfiltered ==
    HierarchyStepOn("equivalent_classes", "sub_classes", "unfiltered")

get_entity_sub_classes_unfiltered ==
    HierarchyStepOn("sub_classes", "association_counts", "unfiltered")

NextUnfiltered ==
    \/ get_entity
    \/ get_entity_inheritance_unfiltered
    \/ get_entity_super_classes_unfiltered
    \/ get_entity_equivalent_classes_unfiltered
    \/ get_entity_sub_classes_unfiltered
    \/ get_entity_association_counts
    \/ get_entity_external_links
    \/ get_entity_provided_by_link
    \/ return_to_caller

SpecUnfiltered == Init /\ [][NextUnfiltered]_vars

\* two invocations against the backend of fixed contents: the running one
\* waits at a backend call and the other one goes on
switch ==
    /\ other # Locals
    /\ other' = Locals
    /\ pc' = other.pc
    /\ req' = other.req
    /\ node' = other.node
    /\ hier' = other.hier
    /\ moi' = other.moi
    /\ calls' = other.calls
    /\ response' = other.response
    /\ result' = other.result

get_entity_fixed == LookupStep("fixed")

get_entity_inheritance_fixed == InheritanceStep("fixed")

get_entity_super_classes_fixed ==
    HierarchyStepOn("super_classes", "equivalent_classes", "fixed")

get_entity_equivalent_classes_fixed ==
    HierarchyStepOn("equivalent_classes", "sub_classes", "fixed")

get_entity_sub_classes_fixed ==
    HierarchyStepOn("sub_classes", "association_counts", "fixed")

get_entity_association_counts_fixed == CountsStep("fixed")

get_association_counts_fixed == AssociationCountsOn("fixed")

NextInterleaved ==
    \/ get_entity_fixed
    \/ get_entity_inheritance_fixed
    \/ get_entity_super_classes_fixed
    \/ get_entity_equivalent_classes_fixed
    \/ get_entity_sub_classes_fixed
    \/ get_entity_association_counts_fixed
    \/ get_entity_external_links
    \/ get_entity_provided_by_link
    \/ get_association_counts_fixed
    \/ switch

SpecInterleaved == Init /\ [][NextInterleaved]_vars

----------------------------------------------------------------------------
(* Properties *)

IsOp(name) == req # None /\ req.op = name

DerivedFields ==
    {"inheritance", "node_hierarchy", "association_counts", "external_links",
     "provided_by_link"}

\* r carries a derived field that is set
HasDerived(r) == \E f \in DerivedFields \cap DOMAIN r : r[f] # None

\* C1: _get_associated_entity returns the object side (id, object_label,
\* object_category) when the reference entity is the subject, the subject side
\* when it is the object only, and fails with the InvariantViolationError kind,
\* returning no entity, when it is neither.
C1_AssociatedEntity ==
    IsOp("_get_associated_entity") =>
        LET a == req.association
            e == req.this_entity
        IN /\ e.id = a.subject =>
                /\ pc = "done"
                /\ result = [t |-> "Entity", id |-> a.object, name |-> a.object_label,
                             category |-> a.object_category]
           /\ (e.id # a.subject /\ e.id = a.object) =>
                /\ pc = "done"
                /\ result = [t |-> "Entity", id |-> a.subject, name |-> a.subject_label,
                             category |-> a.subject_category]
           /\ (e.id # a.subject /\ e.id # a.object) =>
                /\ pc = "failed"
                /\ result = InvariantViolationError

C1_Witness ==
    /\ IsOp("_get_associated_entity")
    /\ req.this_entity.id \notin {req.association.subject, req.association.object}
    /\ pc = "failed"
    /\ result.t = "Error"

\* the endpoint of association a that is not the entity id
OtherEndpoint(a, id) ==
    IF a.subject = id
    THEN [t |-> "Entity", id |-> a.object, name |-> a.object_label,
          category |-> a.object_category]
    ELSE [t |-> "Entity", id |-> a.subject, name |-> a.subject_label,
          category |-> a.subject_category]

\* the has_mode_of_inheritance lookup of an expansion has been answered
InheritanceAnswered ==
    IsOp("get_entity") /\ req.extra /\ moi # None /\ ~IsError(moi)

\* C2: for a Disease entity expanded with extra=True, a Node that get_entity
\* returns has inheritance equal to the other endpoint of the association when
\* the has_mode_of_inheritance lookup returned exactly one, and unset when it
\* returned zero or several; zero or several results are no error: get_entity
\* goes on to the hierarchy with inheritance unset.
C2_Inheritance ==
    InheritanceAnswered =>
        /\ Disease \in Range(node.category)
        /\ Len(moi.items) # 1 =>
              /\ node.inheritance = None
              /\ pc = "failed" => Len(calls) > 2
        /\ pc = "done" =>
              /\ result.t = "Node"
              /\ result.inheritance =
                    IF Len(moi.items) = 1 THEN OtherEndpoint(moi.items[1], req.id) ELSE None

C2_Witness ==
    /\ InheritanceAnswered
    /\ pc = "done"
    /\ Len(moi.items) = 2
    /\ result.t = "Node"
    /\ result.inheritance = None

\* C3: get_entity with extra=False ends after exactly one backend call, the
\* exact-id lookup, and the entity it returns carries no derived field; in
\* every state a derived field is set only if expansion was requested.
C3_NoExpansion ==
    /\ (IsOp("get_entity") /\ ~req.extra) =>
          /\ pc \in {"done", "failed"}
          /\ calls = <<[kind |-> "get", what |-> req.id]>>
          /\ pc = "done" => result.t = "Entity" /\ ~HasDerived(result)
    /\ \A r \in {node, result} :
          HasDerived(r) => IsOp("get_entity") /\ req.extra

C3_Witness ==
    /\ IsOp("get_entity")
    /\ ~req.extra
    /\ pc = "done"
    /\ result.t = "Entity"
    /\ result.id = req.id

\* the association query description with these filters, direct=true, offset 0
\* and nothing else set
DirectQuery(filters) ==
    Over(filters,
         [builder |-> "association", category |-> None, predicate |-> None,
          subject |-> None, object |-> None, entity |-> None,
          subject_closure |-> None, object_closure |-> None,
          direct |-> Bool(TRUE), offset |-> 0, limit |-> 20,
          facet_fields |-> None, facet_queries |-> None])

\* the calls of the log that are association queries
AssociationQueries ==
    SelectSeq(calls, LAMBDA c : c.kind = "query" /\ c.what.builder = "association")

\* how many hierarchy queries have been issued when get_entity is at a step
HierarchyIssued ==
    CASE pc \in {"ready", "inheritance", "super_classes"} -> 0
      [] pc = "equivalent_classes" -> 1
      [] pc = "sub_classes" -> 2
      [] OTHER -> 3

\* C4: _get_node_hierarchy issues exactly three association queries, in this
\* order: subject = id with subclass_of, entity = id with same_as, object = id
\* with subclass_of; each has direct=true and offset 0 and no other filter.
C4_HierarchyQueries ==
    (IsOp("get_entity") /\ req.extra /\ pc # "failed" /\ node # None) =>
        LET first == IF Disease \in Range(node.category) /\ pc # "inheritance" THEN 1 ELSE 0
            q == AssociationQueries
            id == List(<<req.id>>)
            expected ==
                <<DirectQuery([subject |-> id, predicate |-> List(<<SUBCLASS_OF>>)]),
                  DirectQuery([entity |-> id, predicate |-> List(<<SAME_AS>>)]),
                  DirectQuery([object |-> id, predicate |-> List(<<SUBCLASS_OF>>)])>>
        IN /\ Len(q) = first + HierarchyIssued
           /\ \A i \in 1..HierarchyIssued : q[first + i].what = expected[i]

C4_Witness ==
    /\ IsOp("get_entity")
    /\ pc = "done"
    /\ result.t = "Node"
    /\ Len(AssociationQueries) = 4
    /\ result.node_hierarchy.sub_classes # List(<<>>)

\* C5: when the exact-id lookup matches no document, get_entity fails with the
\* NotFoundError kind for extra=False and extra=True alike, issues no further
\* backend query and returns no entity or Node.
C5_NotFound ==
    (IsOp("get_entity") /\ req.id \notin EntityIds /\ response # BackendUnavailableError) =>
        /\ pc = "failed"
        /\ result = NotFoundError
        /\ calls = <<[kind |-> "get", what |-> req.id]>>
        /\ node = None

C5_Witness ==
    /\ IsOp("get_entity")
    /\ req.extra
    /\ req.id \in MissingIds
    /\ pc = "failed"
    /\ result.kind = "NotFoundError"

ScalarOrListParams == {"category", "predicate", "subject", "object", "entity"}

\* the query description an operation builds for these arguments
QueryFor(op, args) ==
    IF op = "get_associations" THEN get_associations_query(args)
    ELSE get_association_facets_query(args)

\* C6: for each of category, predicate, subject, object and entity of
\* get_associations and get_association_facets, the query built for a bare
\* string s is the query built for the list [s], the other parameters equal;
\* a list or None is forwarded unchanged.
C6_ScalarToList ==
    (IsOp("get_associations") \/ IsOp("get_association_facets")) =>
        \A p \in ScalarOrListParams :
            LET v == req.args[p]
                sent == calls[1].what
            IN /\ v.t = "str" =>
                    /\ sent[p] = [t |-> "list", l |-> <<v.s>>]
                    /\ sent = QueryFor(req.op, [req.args EXCEPT ![p] = [t |-> "list", l |-> <<v.s>>]])
               /\ v.t # "str" => sent[p] = v

C6_Witness ==
    /\ IsOp("get_association_facets")
    /\ pc = "done"
    /\ req.args.entity = Str("MONDO:1")
    /\ calls[1].what.entity = List(<<"MONDO:1">>)

\* a call of the current get_entity has failed: the gateway was unavailable,
\* or the single inheritance association holds the entity on neither side
CallFailed ==
    /\ IsOp("get_entity")
    /\ \/ response = BackendUnavailableError
       \/ /\ moi # None /\ ~IsError(moi) /\ Len(moi.items) = 1
          /\ req.id \notin {moi.items[1].subject, moi.items[1].object}

\* C7 in a state: the failure is the outcome of get_entity, unchanged; no Node
\* is returned; the failed call is the last one issued and was issued once.
FailurePropagates ==
    CallFailed =>
        /\ pc = "failed"
        /\ result = IF IsError(response) THEN response ELSE InvariantViolationError
        /\ \A i, j \in 1..Len(calls) : i # j => calls[i] # calls[j]
        /\ IsError(response) =>
              LET last == calls[Len(calls)]
              IN last.kind \in {"get", "query"}

\* C7 in a step: after a failure nothing more is issued; the only step left is
\* the caller receiving the failure.
NothingAfterFailure ==
    (CallFailed \/ pc = "failed") => (pc' = "ready" /\ calls' = <<>> /\ result' = None)

\* C7: a backend call of get_entity that fails (gateway unavailable, or an
\* error raised while resolving an association) propagates unchanged to the
\* caller: it is not retried, no later step issues its call, and no partially
\* populated Node is returned.
C7_FailurePropagates == [](FailurePropagates) /\ [][NothingAfterFailure]_vars

C7_Witness ==
    /\ IsOp("get_entity")
    /\ req.extra
    /\ pc = "failed"
    /\ response = BackendUnavailableError
    /\ Len(calls) = 4
    /\ node.inheritance # None
    /\ result = BackendUnavailableError

\* C8: get_association_table gives the query builder and the parser the same
\* offset and limit, and its result reports exactly the request's offset,
\* limit and anchor entity, whatever the backend response contains.
C8_TableWindow ==
    IsOp("get_association_table") =>
        /\ calls[1].what.offset = req.args.offset
        /\ calls[1].what.limit = req.args.limit
        /\ calls[1].what.entity = req.args.entity
        /\ pc = "done" =>
              /\ result.t = "AssociationTableResults"
              /\ result.offset = req.args.offset
              /\ result.limit = req.args.limit
              /\ result.entity = req.args.entity

C8_Witness ==
    /\ IsOp("get_association_table")
    /\ pc = "done"
    /\ response.start # req.args.offset
    /\ response.limit # req.args.limit
    /\ result.offset = req.args.offset
    /\ Len(result.items) > 0

\* C9: get_association_facets builds its query with offset=0 and limit=0 and
\* with the caller's facet_fields and facet_queries, and its result has
\* limit=0, offset=0, no items and the backend's number of matches as total.
C9_FacetsCountOnly ==
    IsOp("get_association_facets") =>
        /\ calls[1].what.offset = 0
        /\ calls[1].what.limit = 0
        /\ calls[1].what.facet_fields = req.args.facet_fields
        /\ calls[1].what.facet_queries = req.args.facet_queries
        /\ pc = "done" =>
              /\ result.limit = 0
              /\ result.offset = 0
              /\ result.items = <<>>
              /\ result.total = response.num_found

C9_Witness ==
    /\ IsOp("get_association_facets")
    /\ pc = "done"
    /\ req.args.facet_fields # None
    /\ req.args.subject # None
    /\ response.start = 1
    /\ result.total = MaxTotal

PaginatedOps ==
    {"get_associations", "search", "autocomplete", "parse_mappings", "parse_autocomplete"}

\* C10: the result of association search, search, autocomplete and mapping
\* parsing reports the offset, limit and total that the backend reported,
\* whatever the number of items of the page; total is not len(items).
C10_PaginationPassThrough ==
    (req # None /\ req.op \in PaginatedOps /\ pc = "done") =>
        /\ result.offset = response.start
        /\ result.limit = response.limit
        /\ result.total = response.num_found

C10_Witness ==
    /\ IsOp("get_associations")
    /\ pc = "done"
    /\ Len(result.items) = 1
    /\ result.total = MaxTotal
    /\ result.limit = 10
    /\ result.offset = 1

\* C11: the items of every paginated result are the backend's documents in
\* the backend's order, and their number never exceeds the reported limit.
C11_ItemsWithinLimit ==
    (req # None /\ req.op \in PaginatedOps /\ pc = "done") =>
        /\ Len(result.items) <= result.limit
        /\ Len(result.items) = Len(response.docs)
        /\ \A i \in 1..Len(result.items) :
              IF result.t = "SearchResults"
              THEN result.items[i].id = response.docs[i].id
              ELSE result.items[i] = response.docs[i]

\* C12: the result of get_association_counts has exactly one entry for each
\* category of the reference enumeration, in its order; a category the
\* response lacks has count 0 and a category it has keeps the backend's count.
C12_CountsTotal ==
    (IsOp("get_association_counts") /\ pc = "done") =>
        /\ result.t = "AssociationCountList"
        /\ Len(result.items) = Len(ReferenceCategories)
        /\ \A i \in 1..Len(ReferenceCategories) :
              LET c == ReferenceCategories[i]
              IN /\ result.items[i].category = c
                 /\ result.items[i].count =
                       IF c \in DOMAIN response.facet_queries
                       THEN response.facet_queries[c] ELSE 0

C12_Witness ==
    /\ IsOp("get_association_counts")
    /\ pc = "done"
    /\ DOMAIN response.facet_queries = {"disease"}
    /\ result.items = <<[category |-> "disease", count |-> 7],
                        [category |-> "phenotype", count |-> 0]>>

\* C13: for every facet field f that the backend answers with the flat
\* sequence [v1, c1, v2, c2, ...], the result of get_association_facets maps f
\* to [(v1, c1), (v2, c2), ...]: the same pairs, as many, in the same order.
C13_FacetOrder ==
    (IsOp("get_association_facets") /\ pc = "done") =>
        /\ DOMAIN result.facet_fields = DOMAIN response.facet_fields
        /\ \A f \in DOMAIN response.facet_fields :
              LET flat == response.facet_fields[f]
                  pairs == result.facet_fields[f]
              IN /\ 2 * Len(pairs) = Len(flat)
                 /\ \A i \in 1..Len(pairs) :
                       /\ pairs[i][1] = flat[2 * i - 1]
                       /\ pairs[i][2] = flat[2 * i]

C13_Witness ==
    /\ IsOp("get_association_facets")
    /\ pc = "done"
    /\ "category" \in DOMAIN response.facet_fields
    /\ response.facet_fields["category"] = <<"B", 3, "A", 5>>
    /\ result.facet_fields["category"] = << <<"B", 3>>, <<"A", 5>> >>

\* C14: get_histopheno returns a HistoPheno whose id is the subject_closure the
\* caller passed and whose items each carry an id/label pair of the label table
\* and the count of that bucket; a bucket outside the table raises nothing and
\* leaves no item.
C14_HistoPheno ==
    (IsOp("get_histopheno") /\ pc = "done") =>
        /\ result.t = "HistoPheno"
        /\ result.id = req.subject_closure
        /\ \A i \in 1..Len(result.items) :
              /\ \E k \in DOMAIN HistoPhenoKeys :
                    /\ result.items[i].id = HistoPhenoKeys[k].id
                    /\ result.items[i].label = HistoPhenoKeys[k].label
              /\ result.items[i].id \in DOMAIN response.facet_queries
              /\ result.items[i].count = response.facet_queries[result.items[i].id]

C14_Witness ==
    /\ IsOp("get_histopheno")
    /\ pc = "done"
    /\ DOMAIN response.facet_queries = {"HP:0000707", "HP:9999999"}
    /\ result.id = "MONDO:1"
    /\ result.items = <<[label |-> "nervous_system", id |-> "HP:0000707", count |-> 7]>>

EndsWith(s, suffix) ==
    Len(s) >= Len(suffix) /\ SubSeq(s, Len(s) - Len(suffix) + 1, Len(s)) = suffix

\* s without one trailing "_nodes" or "_edges"; unchanged when it ends in neither
WithoutSuffix(s) ==
    IF EndsWith(s, NODES) THEN SubSeq(s, 1, Len(s) - Len(NODES))
    ELSE IF EndsWith(s, EDGES) THEN SubSeq(s, 1, Len(s) - Len(EDGES))
    ELSE s

\* C15: the id of provided_by_link is the entity's provenance value without a
\* trailing "_nodes" or "_edges", nothing else removed, and its url is the
\* provenance lookup's answer for the entity's provenance value.
C15_ProvidedByLink ==
    (IsOp("get_entity") /\ pc = "done" /\ result.t = "Node") =>
        /\ result.provided_by_link.id = Str(WithoutSuffix(result.provided_by.s))
        /\ result.provided_by_link.url = get_provided_by_link(result.provided_by)

\* the external links of n: one record per xref entry, in order, with the
\* expansion lookup's answer as url
LinksFollowXref(n) ==
    /\ n.external_links.t = "list"
    /\ Len(n.external_links.l) = Len(n.xref)
    /\ \A i \in 1..Len(n.xref) :
          /\ n.external_links.l[i].id = n.xref[i]
          /\ n.external_links.l[i].url = CurieExpand(n.xref[i])

ExternalLinksStep ==
    pc = "external_links" => (pc' = "provided_by_link" /\ LinksFollowXref(node'))

\* C16: external_links has exactly one record per identifier of the entity's
\* xref list, in the same order, with that identifier as id and the expansion
\* lookup's answer as url; an identifier without a mapping gets a record with
\* no url, and the step never fails.
C16_ExternalLinks ==
    /\ []((IsOp("get_entity") /\ pc = "done" /\ result.t = "Node") => LinksFollowXref(result))
    /\ [][ExternalLinksStep]_vars

C16_Witness ==
    /\ IsOp("get_entity")
    /\ pc = "done"
    /\ result.t = "Node"
    /\ result.xref = <<"OMIM:1", "XX:9">>
    /\ result.external_links =
          List(<<ExpandedCurie("OMIM:1", Str("https://omim.org/entry/1")),
                 ExpandedCurie("XX:9", None)>>)

\* what a logged call is, by its kind and the filters of its query
CallShape(c) ==
    CASE c.kind = "get" -> "get"
      [] c.kind = "expand" -> "expand"
      [] c.kind = "get_provided_by_link" -> "provenance"
      [] c.kind = "query" /\ c.what.builder = "association_counts" -> "counts"
      [] c.kind = "query" /\ c.what.builder = "association"
           /\ c.what.predicate = List(<<HAS_MODE_OF_INHERITANCE>>) -> "inheritance"
      [] c.kind = "query" /\ c.what.builder = "association"
           /\ c.what.predicate = List(<<SAME_AS>>) -> "equivalents"
      [] c.kind = "query" /\ c.what.builder = "association"
           /\ c.what.predicate = List(<<SUBCLASS_OF>>) /\ c.what.subject # None -> "supers"
      [] c.kind = "query" /\ c.what.builder = "association"
           /\ c.what.predicate = List(<<SUBCLASS_OF>>) /\ c.what.object # None -> "subs"
      [] OTHER -> "other"

\* the calls of a complete expansion of n
ExpectedCalls(n) ==
    <<"get">>
    \o (IF Disease \in Range(n.category) THEN <<"inheritance">> ELSE <<>>)
    \o <<"supers", "equivalents", "subs", "counts">>
    \o [i \in 1..Len(n.xref) |-> "expand"]
    \o <<"provenance">>

IsPrefix(s, t) == Len(s) <= Len(t) /\ SubSeq(t, 1, Len(s)) = s

Expanding == IsOp("get_entity") /\ req.extra /\ node # None

CallsInOrder ==
    Expanding =>
        LET shapes == [i \in 1..Len(calls) |-> CallShape(calls[i])]
        IN /\ IsPrefix(shapes, ExpectedCalls(node))
           /\ pc = "done" => shapes = ExpectedCalls(node)
           /\ Disease \notin Range(node.category) => node.inheritance = None

\* a step of the expansion keeps the calls made so far and adds its own
CallsOneAfterAnother ==
    (Expanding /\ pc \notin {"done", "failed"}) => IsPrefix(calls, calls')

\* C17: the calls of one get_entity(extra=True) are, in this order and one after
\* the other: the exact-id lookup; for a Disease entity only, one
\* has_mode_of_inheritance query; the supers, equivalents and subs queries; one
\* association-count query; the identifier expansions; the provenance lookup.
\* A non-Disease entity has no inheritance query and no inheritance.
C17_CallSequence == [](CallsInOrder) /\ [][CallsOneAfterAnother]_vars

C17_Witness ==
    /\ Expanding
    /\ pc = "done"
    /\ [i \in 1..Len(calls) |-> CallShape(calls[i])] =
          <<"get", "inheritance", "supers", "equivalents", "subs", "counts",
            "expand", "expand", "provenance">>

\* C18: whatever associations the backend answers to the inheritance query of
\* a Disease entity (none, one or several, with any subject and object),
\* get_entity does not fail at that step and goes on to the hierarchy.
C18_InheritanceNeverRaises ==
    (Expanding /\ Len(calls) = 2 /\ CallShape(calls[2]) = "inheritance"
       /\ ~IsError(response))
        => pc = "super_classes"

SubjectEndpoint(a) == Entity(a.subject, a.subject_label, a.subject_category)

ObjectEndpoint(a) == Entity(a.object, a.object_label, a.object_category)

\* list is the image of the page of the last response under endpoint, item by item
ImageOfPage(list, endpoint(_)) ==
    /\ list.t = "list"
    /\ Len(list.l) = Len(response.docs)
    /\ \A i \in 1..Len(response.docs) : list.l[i] = endpoint(response.docs[i])

NotTheEntity(a) == IF a.subject = req.id THEN ObjectEndpoint(a) ELSE SubjectEndpoint(a)

\* C19: each list of the NodeHierarchy is the item-by-item image of the page the
\* backend returned for its query, same length and order: super_classes are the
\* object endpoints, equivalent_classes the endpoints that are not the entity,
\* sub_classes the subject endpoints; the Node carries these three lists.
C19_HierarchyImage ==
    Expanding =>
        /\ pc = "equivalent_classes" => ImageOfPage(hier.super_classes, ObjectEndpoint)
        /\ pc = "sub_classes" => ImageOfPage(hier.equivalent_classes, NotTheEntity)
        /\ pc = "association_counts" =>
              /\ ImageOfPage(hier.sub_classes, SubjectEndpoint)
              /\ node.node_hierarchy = NodeHierarchy(hier)
        /\ (pc = "done" /\ result.t = "Node") => result.node_hierarchy = NodeHierarchy(hier)

C19_Witness ==
    /\ Expanding
    /\ pc = "association_counts"
    /\ Len(response.docs) = 2
    /\ node.node_hierarchy.sub_classes =
          List(<<Entity("MONDO:3", "Becker muscular dystrophy", Disease),
                 Entity("MONDO:2", "Duchenne muscular dystrophy", Disease)>>)
    /\ Len(node.node_hierarchy.equivalent_classes.l) = 2
    /\ Len(node.node_hierarchy.super_classes.l) = 1

LastCall == calls[Len(calls)]

\* the last call was a hierarchy query and its answer holds an association with
\* the entity on neither side
ForeignInHierarchy ==
    /\ Expanding
    /\ CallShape(LastCall) \in {"supers", "equivalents", "subs"}
    /\ ~IsError(response)
    /\ \E i \in 1..Len(response.docs) :
          req.id \notin {response.docs[i].subject, response.docs[i].object}

ForeignRaises ==
    ForeignInHierarchy =>
        /\ pc = "failed"
        /\ result = InvariantViolationError
        /\ \A i \in 1..Len(calls) : CallShape(calls[i]) # "counts"

ForeignEndsTheCall ==
    ForeignInHierarchy => (pc' = "ready" /\ result' = None /\ calls' = <<>>)

\* C20: when a hierarchy query returns an association that has the entity's id
\* as neither subject nor object, the InvariantViolationError of the resolution
\* leaves get_entity uncaught: the call ends with that error as its outcome, the
\* association-count query is not issued and no Node is returned.
C20_InvariantViolationPropagates == [](ForeignRaises) /\ [][ForeignEndsTheCall]_vars

C20_Witness ==
    /\ ForeignInHierarchy
    /\ CallShape(LastCall) = "equivalents"
    /\ pc = "failed"
    /\ result = InvariantViolationError
    /\ hier # None /\ DOMAIN hier = {"super_classes"}

\* the derived fields in the order get_entity assigns them
FieldOrder ==
    <<"inheritance", "node_hierarchy", "association_counts", "external_links",
      "provided_by_link">>

\* the fields of the backend document
BaseFields == {"id", "name", "category", "xref", "provided_by"}

\* in a state: a derived field is set only when those assigned before it are
\* (inheritance may stay unset), and the returned Node is the expanded one
WrittenInOrder ==
    Expanding =>
        /\ \A i, j \in 2..Len(FieldOrder) :
              (i < j /\ node[FieldOrder[j]] # None) => node[FieldOrder[i]] # None
        /\ (pc = "done" /\ result.t = "Node") => result = node

\* in a step of the expansion: base fields keep their values, a field that is
\* set keeps its value, and a field is assigned while all later ones are unset
WrittenOnce ==
    (Expanding /\ pc \notin {"done", "failed"}) =>
        /\ node' # None
        /\ \A f \in BaseFields : node'[f] = node[f]
        /\ \A i \in 1..Len(FieldOrder) :
              LET f == FieldOrder[i]
              IN /\ node[f] # None => node'[f] = node[f]
                 /\ node'[f] # node[f] =>
                       \A j \in (i + 1)..Len(FieldOrder) :
                           node[FieldOrder[j]] = None /\ node'[FieldOrder[j]] = None

\* C21: during one get_entity(extra=True) each derived field of the Node is
\* written at most once, in the order inheritance, node_hierarchy,
\* association_counts, external_links, provided_by_link, and is neither
\* overwritten nor cleared before the Node is returned; the base fields are
\* never modified.
C21_DerivedWrittenOnce == [](WrittenInOrder) /\ [][WrittenOnce]_vars

C21_Witness ==
    /\ Expanding
    /\ pc = "done"
    /\ result.t = "Node"
    /\ \A i \in 1..Len(FieldOrder) : result[FieldOrder[i]] # None
    /\ \A f \in BaseFields : result[f] = EntityDoc(req.id)[f]

SelfReferential(a, e) == a.subject = e.id /\ a.object = e.id

\* C23: _get_associated_entity on an association whose subject and object are
\* both the reference entity's id does not fail and returns the object side:
\* id = object, name = object_label, category = object_category.
C23_SelfReferential ==
    (IsOp("_get_associated_entity") /\ SelfReferential(req.association, req.this_entity)) =>
        /\ pc = "done"
        /\ result.t = "Entity"
        /\ result.id = req.association.object
        /\ result.id = req.this_entity.id
        /\ result.name = req.association.object_label
        /\ result.category = req.association.object_category

C23_Witness ==
    /\ IsOp("_get_associated_entity")
    /\ SelfReferential(req.association, req.this_entity)
    /\ req.association.subject_label # req.association.object_label
    /\ pc = "done"
    /\ result = Entity("MONDO:1", "muscular dystrophy (disease)", Disease)

\* C24: the expansion of an entity without optional fields does not fail by
\* itself: without a provided_by value get_entity still gets to return its Node,
\* and without xref entries the returned Node has empty external_links.
C24_OptionalFieldsAbsent ==
    (Expanding /\ ~IsError(response)) =>
        /\ node.provided_by = None => pc # "failed"
        /\ (pc = "done" /\ node.xref = <<>>) => result.external_links = List(<<>>)

\* one list of the hierarchy of n from the fixed backend
HierarchyAlone(which, n) ==
    get_associated_entities(
        get_associations_result(
            FixedAnswer(get_associations_query(
                get_associated_entities_args(hierarchy_kwargs(which, n))))).items,
        n)

\* what get_entity returns or raises when it runs by itself against the fixed
\* backend
GetEntityAlone(id, extra) ==
    LET lookup == get_entity_lookup(CHOOSE d \in Gets("fixed", id) : TRUE, extra)
        n0 == lookup.node
        inheritance ==
            IF Disease \in Range(n0.category)
            THEN inheritance_of(
                     get_associations_result(
                         FixedAnswer(get_associations_query(inheritance_args(id)))), n0)
            ELSE n0.inheritance
        n1 == [n0 EXCEPT !.inheritance = inheritance]
        h == [super_classes |-> HierarchyAlone("super_classes", n1),
              equivalent_classes |-> HierarchyAlone("equivalent_classes", n1),
              sub_classes |-> HierarchyAlone("sub_classes", n1)]
        counts == get_association_counts_result(
                      FixedAnswer(build_association_counts_query(id)), id)
        n4 == [n1 EXCEPT !.node_hierarchy = NodeHierarchy(h),
                         !.association_counts = List(counts.items),
                         !.external_links = external_links_of(n1)]
        link == provided_by_link_of(n4)
    IN IF n0 = None THEN lookup.result
       ELSE IF IsError(inheritance) THEN inheritance
       ELSE IF IsError(h.super_classes) THEN h.super_classes
       ELSE IF IsError(h.equivalent_classes) THEN h.equivalent_classes
       ELSE IF IsError(h.sub_classes) THEN h.sub_classes
       ELSE IF IsError(link) THEN link
       ELSE [n4 EXCEPT !.provided_by_link = link]

\* the result of request r run by itself
AloneResult(r) ==
    IF r.op = "get_entity" THEN GetEntityAlone(r.id, r.extra)
    ELSE get_association_counts_result(
             FixedAnswer(build_association_counts_query(r.entity)), r.entity)

Finished(l) == l.pc \in {"done", "failed"}

ResultsAsAlone ==
    /\ Finished(Locals) => result = AloneResult(req)
    /\ Finished(other) => other.result = AloneResult(other.req)
    /\ (Finished(Locals) /\ Finished(other) /\ req = other.req) => result = other.result

\* the waiting invocation changes only by trading places with the running one
OnlyTradesPlaces == other' # other => (other' = Locals /\ Locals' = other)

\* C22: two invocations against the same backend contents, one after the other
\* or interleaved at backend calls, share no state: each ends with the result it
\* has when run by itself, two invocations of the same request end with equal
\* results, and no step of one changes anything of the other.
C22_NoSharedState == [](ResultsAsAlone) /\ [][OnlyTradesPlaces]_vars

C22_Witness ==
    /\ IsOp("get_entity") /\ req.extra
    /\ pc = "done" /\ result.t = "Node"
    /\ other.pc = "sub_classes"
    /\ other.req.id # req.id
    /\ Len(calls) > Len(other.calls)

====
